---- MODULE Spec2Model ----
(***************************************************************************)
(* Model of prompt_extract.py: the PNG and WEBP chunk decoders, the        *)
(* EXIF/IFD decoder, the container rewriters, the seed heuristic and the   *)
(* batch loop of main with its external tools and file removals.           *)
(*                                                                         *)
(* Byte strings are sequences of integers 0..255.  Python offsets are      *)
(* 0-based; Slice translates them.  A Python exception ends a loop in the  *)
(* state pc = "raise" with the exception's name in err.                    *)
(***************************************************************************)
EXTENDS Integers, Sequences, FiniteSets, TLC

VARIABLES
    pngChunks,   \* PNG specification: the chunk list the buffer was built from
    s,           \* PNG specification: the buffer read from the file
    rd,          \* PNG specification: the frame of read_png's loop
    wr,          \* PNG specification: the frame of write_png's loop
    webpItems,   \* WEBP specification: the chunk list the buffer was built from
    webp_data,   \* WEBP specification: the buffer
    rw,          \* WEBP specification: the frame of read_webp (first decode)
    saved,       \* WEBP specification: what save_webp wrote
    rw2,         \* WEBP specification: the frame of read_webp on the saved file
    ex,          \* EXIF specification: the frame of parse_exif's loop
    sd,          \* seed specification: the frame of extract_seed's loop
    args,        \* main: the parsed options
    disk,        \* main: file name -> kind of content, for the files that exist
    mn           \* main: the frame of the batch loop

vars == <<pngChunks, s, rd, wr, webpItems, webp_data, rw, saved, rw2, ex, sd, args, disk, mn>>

pngVars == <<pngChunks, s, rd, wr>>
webpVars == <<webpItems, webp_data, rw, saved, rw2>>
mainVars == <<args, disk, mn>>

-----------------------------------------------------------------------------
(* Bytes, slices, struct.unpack and struct.pack                            *)

Min(a, b) == IF a < b THEN a ELSE b

\* Python s[a:b] for 0 <= a, 0 <= b: clamped to the buffer, never an error.
Slice(seq, a, b) ==
    IF a >= Len(seq) \/ b <= a THEN <<>> ELSE SubSeq(seq, a + 1, Min(b, Len(seq)))

\* Python seq[a:] and seq[a:-1]
SliceFrom(seq, a) == Slice(seq, a, Len(seq))
SliceInner(seq, a) == IF Len(seq) - 1 <= a THEN <<>> ELSE SubSeq(seq, a + 1, Len(seq) - 1)

\* unpack('>L', b) and unpack('<I', b) of exactly four bytes
BE32(b) == b[1] * 16777216 + b[2] * 65536 + b[3] * 256 + b[4]
LE32(b) == b[4] * 16777216 + b[3] * 65536 + b[2] * 256 + b[1]
BE16(b) == b[1] * 256 + b[2]
LE16(b) == b[2] * 256 + b[1]

\* pack('<I', n) and pack('>L', n) for 0 <= n < 2^32
PackLE32(n) ==
    << n % 256, (n \div 256) % 256, (n \div 65536) % 256, (n \div 16777216) % 256 >>
PackBE32(n) ==
    << (n \div 16777216) % 256, (n \div 65536) % 256, (n \div 256) % 256, n % 256 >>
PackBE16(n) == << (n \div 256) % 256, n % 256 >>
PackLE16(n) == << n % 256, (n \div 256) % 256 >>

RECURSIVE Flatten(_)
Flatten(seqs) == IF seqs = <<>> THEN <<>> ELSE Head(seqs) \o Flatten(Tail(seqs))

\* bytes.startswith
StartsWith(b, prefix) == Len(b) >= Len(prefix) /\ SubSeq(b, 1, Len(prefix)) = prefix

\* b.decode('ascii') / b.decode('utf-8') succeed on these bytes (the model's
\* inputs are ASCII; a byte >= 128 is taken as undecodable)
Decodable(b) == \A i \in 1..Len(b) : b[i] < 128

-----------------------------------------------------------------------------
(* Python values: None, str, int, float, bool, dict (insertion ordered)    *)

VNone == [t |-> "none", v |-> <<>>]
VStr(b) == [t |-> "str", v |-> b]
VInt(n) == [t |-> "int", v |-> <<n>>]
VFloat(n, frac) == [t |-> "float", v |-> <<n>> \o frac]
VBool(b) == [t |-> "bool", v |-> <<IF b THEN 1 ELSE 0>>]
VDict(pairs) == [t |-> "dict", v |-> pairs]

\* Python truthiness: bool(x)
Truthy(x) ==
    CASE x.t = "none" -> FALSE
      [] x.t = "str" -> Len(x.v) > 0
      [] x.t = "int" -> x.v[1] # 0
      [] x.t = "float" -> \E i \in 1..Len(x.v) : x.v[i] # 0
      [] x.t = "bool" -> x.v[1] = 1
      [] x.t = "dict" -> Len(x.v) > 0
      [] OTHER -> TRUE

\* d[k] = val on an insertion-ordered dict: a repeated key keeps its place
DictSet(pairs, k, val) ==
    IF \E i \in 1..Len(pairs) : pairs[i].k = k
    THEN [i \in 1..Len(pairs) |-> IF pairs[i].k = k THEN [k |-> k, val |-> val] ELSE pairs[i]]
    ELSE Append(pairs, [k |-> k, val |-> val])

-----------------------------------------------------------------------------
(* json.loads on the text alphabet of the model: objects with string keys, *)
(* strings without escapes, integers, simple decimals, true, false, null;  *)
(* no white space.  Anything else is a JSONDecodeError.                    *)

JFail == [ok |-> FALSE, val |-> VNone, pos |-> 0]
JOk(val, pos) == [ok |-> TRUE, val |-> val, pos |-> pos]

IsDigit(b) == b >= 48 /\ b <= 57

RECURSIVE DigitsEnd(_, _)
DigitsEnd(txt, p) ==
    IF p <= Len(txt) /\ IsDigit(txt[p]) THEN DigitsEnd(txt, p + 1) ELSE p

RECURSIVE DigitsVal(_, _, _, _)
DigitsVal(txt, p, q, acc) ==
    IF p >= q THEN acc ELSE DigitsVal(txt, p + 1, q, acc * 10 + (txt[p] - 48))

\* d0: the first digit, d1: past the digits, iend: past the integer part (a
\* leading zero ends it), mag: its magnitude, fend: past the digits after iend
JsonNumber(txt, p) ==
    LET Number(neg, d0, d1, iend, mag, fend) ==
            IF d1 = d0 THEN JFail
            ELSE IF iend <= Len(txt) /\ txt[iend] = 46 /\ fend > iend + 1
                 THEN JOk(VFloat(IF neg THEN 0 - mag ELSE mag,
                                 SubSeq(txt, iend + 1, fend - 1)), fend)
            ELSE JOk(VInt(IF neg THEN 0 - mag ELSE mag), iend)
        Fraction(neg, d0, d1, iend) ==
            Number(neg, d0, d1, iend, DigitsVal(txt, d0, iend, 0), DigitsEnd(txt, iend + 1))
        Integer(neg, d0, d1) ==
            Fraction(neg, d0, d1, IF d1 > d0 + 1 /\ txt[d0] = 48 THEN d0 + 1 ELSE d1)
        Digits(neg, d0) == Integer(neg, d0, DigitsEnd(txt, d0))
    IN  Digits(txt[p] = 45, IF txt[p] = 45 THEN p + 1 ELSE p)

RECURSIVE QuoteEnd(_, _)
\* the position of the closing quote, or 0 (unterminated, control byte, escape)
QuoteEnd(txt, p) ==
    IF p > Len(txt) THEN 0
    ELSE IF txt[p] = 34 THEN p
    ELSE IF txt[p] < 32 \/ txt[p] = 92 THEN 0
    ELSE QuoteEnd(txt, p + 1)

JsonString(txt, p) ==
    LET Quoted(q) == IF q = 0 THEN JFail ELSE JOk(VStr(SubSeq(txt, p + 1, q - 1)), q + 1)
    IN  Quoted(QuoteEnd(txt, p + 1))

JsonLiteral(txt, p) ==
    IF SubSeq(txt, p, Min(p + 3, Len(txt))) = <<116, 114, 117, 101>> THEN JOk(VBool(TRUE), p + 4)
    ELSE IF SubSeq(txt, p, Min(p + 4, Len(txt))) = <<102, 97, 108, 115, 101>> THEN JOk(VBool(FALSE), p + 5)
    ELSE IF SubSeq(txt, p, Min(p + 3, Len(txt))) = <<110, 117, 108, 108>> THEN JOk(VNone, p + 4)
    ELSE JFail

RECURSIVE JsonValue(_, _)
RECURSIVE JsonMembers(_, _, _)

\* the members of an object from position p (after "{" or ","), pairs so far
JsonMembers(txt, p, pairs) ==
    IF p > Len(txt) \/ txt[p] # 34 THEN JFail
    ELSE LET Rest(val, more) ==
                 IF txt[val.pos] = 125 THEN JOk(VDict(more), val.pos + 1)
                 ELSE IF txt[val.pos] = 44 THEN JsonMembers(txt, val.pos + 1, more)
                 ELSE JFail
             Member(key, val) ==
                 IF ~val.ok \/ val.pos > Len(txt) THEN JFail
                 ELSE Rest(val, DictSet(pairs, key.val.v, val.val))
             Colon(key) ==
                 IF ~key.ok \/ key.pos > Len(txt) \/ txt[key.pos] # 58 THEN JFail
                 ELSE Member(key, JsonValue(txt, key.pos + 1))
         IN  Colon(JsonString(txt, p))

JsonValue(txt, p) ==
    IF p > Len(txt) THEN JFail
    ELSE IF txt[p] = 123
         THEN IF p + 1 <= Len(txt) /\ txt[p + 1] = 125 THEN JOk(VDict(<<>>), p + 2)
              ELSE JsonMembers(txt, p + 1, <<>>)
    ELSE IF txt[p] = 34 THEN JsonString(txt, p)
    ELSE IF txt[p] = 45 \/ IsDigit(txt[p]) THEN JsonNumber(txt, p)
    ELSE JsonLiteral(txt, p)

\* json.loads(text): the value, or ok = FALSE for JSONDecodeError ("Extra data" included)
JsonLoads(txt) ==
    LET Whole(r) == IF r.ok /\ r.pos = Len(txt) + 1 THEN r ELSE JFail
    IN  Whole(JsonValue(txt, 1))

-----------------------------------------------------------------------------
(* PNG: read_png and write_png                                             *)

PngSignature == <<137, 80, 78, 71, 13, 10, 26, 10>>
RiffTag == <<82, 73, 70, 70>>
T_IHDR == <<73, 72, 68, 82>>
T_pHYs == <<112, 72, 89, 115>>
T_tEXt == <<116, 69, 88, 116>>
T_IEND == <<73, 69, 78, 68>>
T_IDAT == <<73, 68, 65, 84>>
K_prompt == <<112, 114, 111, 109, 112, 116>>
K_workflow == <<119, 111, 114, 107, 102, 108, 111, 119>>
K_parameters == <<112, 97, 114, 97, 109, 101, 116, 101, 114, 115>>

\* a frame that ends in a Python exception
Raise(st, name) == [st EXCEPT !.pc = "raise", !.err = name]

\* the frame of read_png before its loop (lines 127-130)
ReadPngInit ==
    [pc |-> "loop", err |-> "", offset |-> 8, w |-> -1, h |-> -1,
     prompt |-> VStr(<<>>), workflow |-> VStr(<<>>), parameters |-> VStr(<<>>)]

\* after the loop: the IHDR check and the return (lines 174-176)
ReadPngFinish(st) ==
    IF st.w = -1 THEN Raise(st, "TypeError: no IHDR") ELSE [st EXCEPT !.pc = "done"]

\* offset += size+12 of read_png (line 173)
ReadPngNext(offset, size) == offset + size + 12

\* data.split(b'\x00', 1): the index of the first NUL, 0 when there is none
RECURSIVE FirstNul(_, _)
FirstNul(data, i) ==
    IF i > Len(data) THEN 0 ELSE IF data[i] = 0 THEN i ELSE FirstNul(data, i + 1)

\* the value read_png stores for a tEXt text: json.loads, else the text (lines 155-158)
TextValue(text) ==
    LET Loaded(j) == IF j.ok THEN j.val ELSE VStr(text) IN Loaded(JsonLoads(text))

\* the tEXt branch of read_png (lines 152-170)
ReadPngText(st, data) ==
    LET Store(keyword, json_data) ==
            IF keyword = K_prompt THEN [st EXCEPT !.prompt = json_data]
            ELSE IF keyword = K_workflow THEN [st EXCEPT !.workflow = json_data]
            ELSE IF keyword = K_parameters THEN [st EXCEPT !.parameters = json_data]
            ELSE st
        Split(keyword, text) ==
            IF ~Decodable(text) THEN Raise(st, "UnicodeDecodeError")
            ELSE Store(keyword, TextValue(text))
        At(nul) ==
            IF nul = 0 THEN Raise(st, "ValueError")
            ELSE Split(SubSeq(data, 1, nul - 1), SubSeq(data, nul + 1, Len(data)))
    IN  At(FirstNul(data, 1))

\* one test of the loop condition of read_png and one pass of its body (lines 137-173)
ReadPngIter(buf, st) ==
    LET offset == st.offset
        hdr == Slice(buf, offset, offset + 8)
        size == BE32(SubSeq(hdr, 1, 4))
        type == SubSeq(hdr, 5, 8)
    IN  IF ~(offset < Len(buf)) THEN ReadPngFinish(st)
        ELSE IF Len(hdr) # 8 THEN Raise(st, "struct.error")
        ELSE IF type = T_IHDR
             THEN LET b == Slice(buf, offset + 8, offset + 16)
                  IN  IF Len(b) # 8 THEN Raise(st, "struct.error")
                      ELSE [st EXCEPT !.w = BE32(SubSeq(b, 1, 4)), !.h = BE32(SubSeq(b, 5, 8)),
                                      !.offset = ReadPngNext(offset, size)]
        ELSE IF type = T_pHYs
             THEN LET b == Slice(buf, offset + 8, offset + 17)
                  IN  IF Len(b) # 9 THEN Raise(st, "struct.error")
                      ELSE IF BE32(SubSeq(b, 1, 4)) # BE32(SubSeq(b, 5, 8))
                           THEN Raise(st, "TypeError: resolution")
                      ELSE IF b[9] # 1 THEN Raise(st, "TypeError: units")
                      ELSE ReadPngFinish(st)
        ELSE IF type = T_tEXt
             THEN LET Advance(t) == IF t.pc = "raise" THEN t
                                    ELSE [t EXCEPT !.offset = ReadPngNext(offset, size)]
                  IN  Advance(ReadPngText(st, Slice(buf, offset + 8, offset + 8 + size)))
        ELSE IF type = T_IEND THEN ReadPngFinish(st)
        ELSE [st EXCEPT !.offset = ReadPngNext(offset, size)]

RECURSIVE ReadPngLoop(_, _)
ReadPngLoop(buf, st) ==
    IF st.pc # "loop" THEN st ELSE ReadPngLoop(buf, ReadPngIter(buf, st))

\* the frame of write_png before its loop: the signature is written (lines 183-185)
WritePngInit == [pc |-> "loop", err |-> "", offset |-> 8, out |-> PngSignature]

\* the test of write_png: which chunks are copied (line 188)
WritePngKeeps(type) == type # T_tEXt

\* a copy that leaves out the chunk's CRC
WritePngCopyNoCrc(buf, offset, size) == Slice(buf, offset, offset + 8 + size)

\* what write_png copies for a kept chunk (line 189)
WritePngCopy(buf, offset, size) == Slice(buf, offset, offset + 12 + size)

\* offset += size+12 of write_png (line 192)
WritePngNext(offset, size) == offset + size + 12

\* one test of the loop condition of write_png and one pass of its body (lines 186-192)
WritePngIter(buf, st) ==
    LET offset == st.offset
        hdr == Slice(buf, offset, offset + 8)
        size == BE32(SubSeq(hdr, 1, 4))
        type == SubSeq(hdr, 5, 8)
    IN  IF ~(offset < Len(buf)) THEN [st EXCEPT !.pc = "done"]
        ELSE IF Len(hdr) # 8 THEN Raise(st, "struct.error")
        ELSE IF WritePngKeeps(type)
             THEN IF type = T_IEND
                  THEN [st EXCEPT !.out = @ \o WritePngCopy(buf, offset, size), !.pc = "done"]
                  ELSE [st EXCEPT !.out = @ \o WritePngCopy(buf, offset, size),
                                  !.offset = WritePngNext(offset, size)]
        ELSE [st EXCEPT !.offset = WritePngNext(offset, size)]

RECURSIVE WritePngLoop(_, _)
WritePngLoop(buf, st) ==
    IF st.pc # "loop" THEN st ELSE WritePngLoop(buf, WritePngIter(buf, st))

(* The PNG buffers of the model: the signature and a sequence of chunks,   *)
(* each laid out as length, type, payload and CRC.                         *)

MaxPngChunks == 3

PngChunk(type, data, crc) == [type |-> type, data |-> data, crc |-> crc]
EncodePngChunk(c) == PackBE32(Len(c.data)) \o c.type \o c.data \o c.crc
EncodePng(chunks) ==
    PngSignature \o Flatten([i \in 1..Len(chunks) |-> EncodePngChunk(chunks[i])])

\* "7", "{}" and a word that is no JSON
TxtSeven == <<55>>
TxtEmptyDict == <<123, 125>>
TxtWord == <<120>>

PngAlphabet ==
    { PngChunk(T_IHDR, <<0, 0, 0, 2, 0, 0, 0, 3, 8, 2, 0, 0, 0>>, <<1, 1, 1, 1>>),
      PngChunk(T_pHYs, <<0, 0, 15, 97, 0, 0, 15, 97, 1>>, <<2, 2, 2, 2>>),
      PngChunk(T_tEXt, K_prompt \o <<0>> \o TxtSeven, <<3, 3, 3, 3>>),
      PngChunk(T_tEXt, K_prompt \o <<0>> \o TxtEmptyDict, <<4, 4, 4, 4>>),
      PngChunk(T_tEXt, K_parameters \o <<0>> \o TxtWord, <<5, 5, 5, 5>>),
      PngChunk(T_tEXt, <<84>> \o <<0>> \o TxtWord, <<6, 6, 6, 6>>),
      PngChunk(T_IDAT, <<1, 2>>, <<7, 7, 7, 7>>),
      PngChunk(T_IEND, <<>>, <<174, 66, 96, 130>>) }

RECURSIVE SeqsUpTo(_, _)
\* the sequences over S of length at most n
SeqsUpTo(S, n) ==
    IF n = 0 THEN {<<>>}
    ELSE LET shorter == SeqsUpTo(S, n - 1)
         IN  shorter \cup {Append(q, x) : q \in {r \in shorter : Len(r) = n - 1}, x \in S}

PngIdle ==
    /\ pngChunks = <<>>
    /\ s = <<>>
    /\ rd = [pc |-> "idle"]
    /\ wr = [pc |-> "idle"]

PngInit ==
    /\ pngChunks \in SeqsUpTo(PngAlphabet, MaxPngChunks)
    /\ s = EncodePng(pngChunks)
    /\ rd = ReadPngInit
    /\ wr = WritePngInit

\* read_png runs its loop
ReadPngStep ==
    /\ rd.pc = "loop"
    /\ rd' = ReadPngIter(s, rd)
    /\ UNCHANGED <<pngChunks, s, wr>>

\* write_png runs its loop on the same buffer
WritePngStep ==
    /\ rd.pc # "loop"
    /\ wr.pc = "loop"
    /\ wr' = WritePngIter(s, wr)
    /\ UNCHANGED <<pngChunks, s, rd>>


-----------------------------------------------------------------------------
(* EXIF: parse_exif                                                        *)

ID_WORKFLOW == 270
ID_PROMPT == 271

L_Workflow == <<87, 111, 114, 107, 102, 108, 111, 119, 58>>
L_Prompt == <<80, 114, 111, 109, 112, 116, 58>>
MarkII == <<73, 73>>
MarkMM == <<77, 77>>

\* unpack(endian+'H'), unpack(endian+'h') and unpack(endian+'I')
U16(endian, b) == IF endian = "<" THEN LE16(b) ELSE BE16(b)
S16(endian, b) == IF U16(endian, b) >= 32768 THEN U16(endian, b) - 65536 ELSE U16(endian, b)
U32(endian, b) == IF endian = "<" THEN LE32(b) ELSE BE32(b)

ExifFrame(data) ==
    [pc |-> "loop", err |-> "", data |-> data, endian |-> "", offset |-> 0, cnt |-> 0,
     ifds |-> 0, workflow |-> VNone, prompt |-> VNone]

\* parse_exif up to its loop (lines 68-84)
ExifStart(data) ==
    LET st == ExifFrame(data)
        endian == IF Slice(data, 0, 2) = MarkII THEN "<"
                  ELSE IF Slice(data, 0, 2) = MarkMM THEN ">" ELSE ""
        offset == U32(endian, Slice(data, 4, 8))
    IN  IF endian = "" THEN [st EXCEPT !.pc = "done"]
        ELSE IF Len(Slice(data, 2, 4)) # 2 THEN Raise(st, "struct.error")
        ELSE IF S16(endian, Slice(data, 2, 4)) # 42 THEN [st EXCEPT !.pc = "done"]
        ELSE IF Len(Slice(data, 4, 8)) # 4 THEN Raise(st, "struct.error")
        ELSE IF Len(Slice(data, offset, offset + 2)) # 2 THEN Raise(st, "struct.error")
        ELSE [st EXCEPT !.endian = endian, !.offset = offset + 2,
                        !.ifds = U16(endian, Slice(data, offset, offset + 2))]

\* the branch of parse_exif for an entry whose field type is not 2 (lines 90-91):
\* the name loggin is not defined, so the call raises NameError
ExifNotAscii(st) == Raise(st, "NameError")

\* the branch for an ASCII entry with a known tag (lines 95-101)
ExifKnown(st, id, payload) ==
    LET Store(j) ==
            IF ~j.ok THEN Raise(st, "JSONDecodeError")
            ELSE IF id = ID_WORKFLOW THEN [st EXCEPT !.workflow = j.val]
            ELSE [st EXCEPT !.prompt = j.val]
        Loads(text) ==
            IF ~Decodable(text) THEN Raise(st, "UnicodeDecodeError")
            ELSE Store(JsonLoads(text))
        Labelled(label) ==
            IF ~StartsWith(payload, label) THEN Raise(st, "AssertionError")
            ELSE Loads(SliceInner(payload, Len(label)))
    IN  Labelled(IF id = ID_WORKFLOW THEN L_Workflow ELSE L_Prompt)

\* one test of the loop condition of parse_exif and one pass of its body (lines 85-104)
ExifIter(st) ==
    LET data == st.data
        offset == st.offset
        e == st.endian
    IN  IF ~(st.cnt < st.ifds /\ offset < Len(data)) THEN [st EXCEPT !.pc = "done"]
        ELSE IF Len(Slice(data, offset, offset + 12)) # 12 THEN Raise(st, "struct.error")
        ELSE LET Advance(t) == IF t.pc = "raise" THEN t
                                ELSE [t EXCEPT !.offset = offset + 12, !.cnt = st.cnt + 1]
                 Entry(id, kind, values, voffset) ==
                     IF kind # 2 THEN ExifNotAscii(st)
                     ELSE IF id # ID_WORKFLOW /\ id # ID_PROMPT THEN st
                     ELSE ExifKnown(st, id, Slice(data, voffset, voffset + values))
             IN  Advance(Entry(U16(e, Slice(data, offset, offset + 2)),
                               U16(e, Slice(data, offset + 2, offset + 4)),
                               U32(e, Slice(data, offset + 4, offset + 8)),
                               U32(e, Slice(data, offset + 8, offset + 12))))

RECURSIVE ExifLoop(_)
ExifLoop(st) == IF st.pc # "loop" THEN st ELSE ExifLoop(ExifIter(st))

\* parse_exif(data): the final frame (pc = "done": workflow, prompt are returned)
ParseExif(data) == ExifLoop(ExifStart(data))

(* The EXIF payloads of the model: a TIFF header, one directory and the    *)
(* values of its entries behind it.                                        *)

MaxIfdEntries == 3

P16(endian, n) == IF endian = "<" THEN PackLE16(n) ELSE PackBE16(n)
P32(endian, n) == IF endian = "<" THEN PackLE32(n) ELSE PackBE32(n)

IfdEntry(id, kind, value) == [id |-> id, kind |-> kind, value |-> value]

RECURSIVE ValueOffsets(_, _)
\* where each entry's value lies, the first at offset base
ValueOffsets(entries, base) ==
    IF entries = <<>> THEN <<>>
    ELSE <<base>> \o ValueOffsets(Tail(entries), base + Len(Head(entries).value))

EncodeExif(mark, magic, entries) ==
    LET e == IF mark = MarkMM THEN ">" ELSE "<"
        n == Len(entries)
        offs == ValueOffsets(entries, 10 + 12 * n)
    IN  mark \o P16(e, magic) \o P32(e, 8) \o P16(e, n)
        \o Flatten([i \in 1..n |-> P16(e, entries[i].id) \o P16(e, entries[i].kind)
                                   \o P32(e, Len(entries[i].value)) \o P32(e, offs[i])])
        \o Flatten([i \in 1..n |-> entries[i].value])

IfdAlphabet ==
    { IfdEntry(ID_WORKFLOW, 2, L_Workflow \o TxtEmptyDict \o <<0>>),
      IfdEntry(ID_PROMPT, 2, L_Prompt \o TxtSeven \o <<0>>),
      IfdEntry(ID_PROMPT, 2, L_Prompt \o TxtEmptyDict \o <<0>>),
      IfdEntry(305, 2, TxtWord \o <<0>>),
      IfdEntry(274, 3, <<1, 0>>),
      IfdEntry(ID_PROMPT, 2, L_Prompt \o TxtWord \o <<0>>) }

ExifInit ==
    \E mark \in {MarkII, MarkMM, <<88, 88>>}, magic \in {42, 43},
       entries \in SeqsUpTo(IfdAlphabet, MaxIfdEntries) :
        ex = [pc |-> "start", entries |-> entries, mark |-> mark, magic |-> magic,
              data |-> EncodeExif(mark, magic, entries)]

\* parse_exif is called and runs up to its loop
ExifBegin ==
    /\ ex.pc = "start"
    /\ ex' = [f \in DOMAIN ex \cup DOMAIN ExifStart(ex.data) |->
                 IF f \in DOMAIN ExifStart(ex.data) THEN ExifStart(ex.data)[f] ELSE ex[f]]

\* parse_exif runs its loop
ExifStep ==
    /\ ex.pc = "loop"
    /\ ex' = [f \in DOMAIN ex |->
                 IF f \in DOMAIN ExifIter(ex) THEN ExifIter(ex)[f] ELSE ex[f]]

-----------------------------------------------------------------------------
(* WEBP: read_webp and save_webp                                           *)

WebpTag == <<87, 69, 66, 80>>
T_EXIF == <<69, 88, 73, 70>>
T_VP8X == <<86, 80, 56, 88>>
T_VP8 == <<86, 80, 56, 32>>

\* the frame of read_webp before its loop (lines 38-41)
ReadWebpInit ==
    [pc |-> "loop", err |-> "", offset |-> 12, chunks |-> <<>>, w |-> 0, h |-> 0,
     prompt |-> VStr(<<>>), workflow |-> VStr(<<>>)]

\* chunks[-1]['size'] += 1; chunks[-1]['data'] += b'\x00' (lines 46-47)
AbsorbZero(chunks) ==
    [chunks EXCEPT ![Len(chunks)] =
        [type |-> @.type, size |-> @.size + 1, data |-> @.data \o <<0>>]]

\* offset += 8 + chunk_size (line 63)
ReadWebpNext(offset, chunk_size) == offset + 8 + chunk_size

\* the body of read_webp's loop from the chunk header on (lines 48-63), the
\* stray-byte handler done: offset and chunks are the handler's
ReadWebpChunk(data, st, offset, chunks) ==
    LET at == [st EXCEPT !.offset = offset, !.chunks = chunks]
        chunk_type == Slice(data, offset, offset + 4)
        szb == Slice(data, offset + 4, offset + 8)
        chunk_size == LE32(szb)
        chunk_data == Slice(data, offset + 8, offset + 8 + chunk_size)
        next == ReadWebpNext(offset, chunk_size)
    IN  IF ~Decodable(chunk_type) THEN Raise(at, "UnicodeDecodeError")
        ELSE IF Len(szb) # 4 THEN Raise(at, "struct.error")
        ELSE IF chunk_type = T_EXIF
             THEN LET Parsed(e) ==
                          IF e.pc = "raise" THEN Raise(at, e.err)
                          ELSE [at EXCEPT !.workflow = e.workflow, !.prompt = e.prompt,
                                          !.offset = next]
                  IN  Parsed(ParseExif(chunk_data))
        ELSE LET kept == Append(chunks, [type |-> chunk_type, size |-> chunk_size,
                                          data |-> chunk_data])
                 d == Slice(chunk_data, 4, 10)
             IN  IF chunk_type = T_VP8X
                 THEN IF Len(d) # 6 THEN Raise(at, "struct.error")
                      ELSE [at EXCEPT !.w = LE16(SubSeq(d, 1, 2)) + 256 * d[3] + 1,
                                      !.h = LE16(SubSeq(d, 4, 5)) + 256 * d[6] + 1,
                                      !.chunks = kept, !.offset = next]
                 ELSE [at EXCEPT !.chunks = kept, !.offset = next]

\* one test of the loop condition of read_webp and one pass of its body (lines 43-63)
ReadWebpIter(data, st) ==
    LET offset == st.offset
    IN  IF ~(offset < Len(data)) THEN [st EXCEPT !.pc = "done"]
        ELSE IF data[offset + 1] = 0 /\ st.chunks = <<>>
             THEN Raise([st EXCEPT !.offset = offset + 1], "IndexError")
        ELSE ReadWebpChunk(data, st,
                           IF data[offset + 1] = 0 THEN offset + 1 ELSE offset,
                           IF data[offset + 1] = 0 THEN AbsorbZero(st.chunks) ELSE st.chunks)

RECURSIVE ReadWebpLoop(_, _)
ReadWebpLoop(data, st) ==
    IF st.pc # "loop" THEN st ELSE ReadWebpLoop(data, ReadWebpIter(data, st))

RECURSIVE SumSizes(_)
\* sum(chunk['size'] + 8 for chunk in chunks)
SumSizes(chunks) ==
    IF chunks = <<>> THEN 0 ELSE Head(chunks).size + 8 + SumSizes(Tail(chunks))

\* the RIFF length save_webp writes (line 109)
RiffLength(chunks) == SumSizes(chunks) + 4

\* a writer that pads an odd payload with a zero byte, as RIFF asks
SaveWebpChunkPadded(c) ==
    c.type \o PackLE32(c.size) \o c.data \o (IF c.size % 2 = 1 THEN <<0>> ELSE <<>>)

\* what save_webp appends for one chunk (lines 113-115)
SaveWebpChunk(c) == c.type \o PackLE32(c.size) \o c.data

\* save_webp(chunks, file_path): the bytes written (lines 107-117).  The sizes of
\* the model stay far below 2^32, where pack('<I', n) would raise struct.error.
SaveWebp(chunks) ==
    [pc |-> "done", err |-> "",
     out |-> RiffTag \o PackLE32(RiffLength(chunks)) \o WebpTag
             \o Flatten([i \in 1..Len(chunks) |-> SaveWebpChunk(chunks[i])])]

(* The WEBP buffers of the model: the RIFF header and a sequence of        *)
(* chunks, each possibly followed by one stray zero byte; a stray byte may *)
(* also precede the first chunk, and the file may lack its last byte.      *)

MaxWebpChunks == 3

WebpItem(type, data, zero) == [type |-> type, data |-> data, zero |-> zero]

ExifPromptPayload == EncodeExif(MarkII, 42, <<IfdEntry(ID_PROMPT, 2, L_Prompt \o TxtSeven \o <<0>>)>>)

WebpAlphabet ==
    { WebpItem(T_VP8X, <<16, 0, 0, 0, 1, 0, 0, 2, 0, 0>>, z) : z \in BOOLEAN }
    \cup { WebpItem(T_VP8, <<9, 8, 7>>, z) : z \in BOOLEAN }
    \cup { WebpItem(T_EXIF, ExifPromptPayload, z) : z \in BOOLEAN }

EncodeWebpItem(c) ==
    c.type \o PackLE32(Len(c.data)) \o c.data \o (IF c.zero THEN <<0>> ELSE <<>>)

EncodeWebp(lead, items, cut) ==
    LET body == (IF lead THEN <<0>> ELSE <<>>)
                \o Flatten([i \in 1..Len(items) |-> EncodeWebpItem(items[i])])
        kept == SubSeq(body, 1, Len(body) - Min(cut, Len(body)))
    IN  RiffTag \o PackLE32(Len(body) + 4) \o WebpTag \o kept

WebpInit ==
    \E lead \in BOOLEAN, cut \in {0, 1}, items \in SeqsUpTo(WebpAlphabet, MaxWebpChunks) :
        /\ webpItems = [lead |-> lead, items |-> items, cut |-> cut]
        /\ webp_data = EncodeWebp(lead, items, cut)
        /\ rw = ReadWebpInit
        /\ saved = [pc |-> "idle"]
        /\ rw2 = [pc |-> "idle"]

\* read_webp runs its loop on the file
ReadWebpStep ==
    /\ rw.pc = "loop"
    /\ rw' = ReadWebpIter(webp_data, rw)
    /\ UNCHANGED <<webpItems, webp_data, saved, rw2>>

\* write_png(s, file) with the chunk list read_webp returned: save_webp
SaveWebpStep ==
    /\ rw.pc = "done"
    /\ saved.pc = "idle"
    /\ saved' = SaveWebp(rw.chunks)
    /\ UNCHANGED <<webpItems, webp_data, rw, rw2>>

\* the written file is decoded again: read_webp is called on it
RereadWebpBegin ==
    /\ saved.pc = "done"
    /\ rw2.pc = "idle"
    /\ rw2' = ReadWebpInit
    /\ UNCHANGED <<webpItems, webp_data, rw, saved>>

\* read_webp runs its loop on the written file
RereadWebpStep ==
    /\ rw2.pc = "loop"
    /\ rw2' = ReadWebpIter(saved.out, rw2)
    /\ UNCHANGED <<webpItems, webp_data, rw, saved>>

-----------------------------------------------------------------------------
(* The seed heuristic: extract_seed                                        *)

K_inputs == <<105, 110, 112, 117, 116, 115>>
K_seed == <<115, 101, 101, 100>>

\* d.get(key, default) on a dict's pairs
DictGet(pairs, key, default) ==
    IF \E i \in 1..Len(pairs) : pairs[i].k = key
    THEN pairs[CHOOSE i \in 1..Len(pairs) : pairs[i].k = key].val
    ELSE default

\* isinstance(x, int): Python's bool is a subclass of int
IsInstanceInt(x) == x.t \in {"int", "bool"}

\* extract_seed up to its loop (lines 253-255): a falsy prompt returns None;
\* a prompt that is no dict has no items()
SeedStart(prompt) ==
    LET st == [pc |-> "loop", err |-> "", prompt |-> prompt, i |-> 1, result |-> VNone]
    IN  IF ~Truthy(prompt) THEN [st EXCEPT !.pc = "done"]
        ELSE IF prompt.t # "dict" THEN Raise(st, "AttributeError")
        ELSE st

\* one pass of extract_seed's loop, or its end (lines 255-262)
SeedIter(st) ==
    LET items == st.prompt.v
        node == items[st.i].val
        inputs == DictGet(node.v, K_inputs, VDict(<<>>))
        seed == DictGet(inputs.v, K_seed, VNone)
    IN  IF st.i > Len(items) THEN [st EXCEPT !.pc = "done"]
        ELSE IF node.t # "dict" THEN Raise(st, "AttributeError")
        ELSE IF ~Truthy(inputs) THEN [st EXCEPT !.i = @ + 1]
        ELSE IF inputs.t # "dict" THEN Raise(st, "AttributeError")
        ELSE IF seed.t # "none" /\ IsInstanceInt(seed)
             THEN [st EXCEPT !.pc = "done", !.result = seed]
        ELSE [st EXCEPT !.i = @ + 1]

RECURSIVE SeedLoop(_)
SeedLoop(st) == IF st.pc # "loop" THEN st ELSE SeedLoop(SeedIter(st))

\* extract_seed(prompt): the final frame
ExtractSeed(prompt) == SeedLoop(SeedStart(prompt))

(* The prompts of the model: absent, empty, or up to MaxNodes nodes.       *)

MaxNodes == 3

NodeWith(inputs) == VDict(<<[k |-> K_inputs, val |-> inputs]>>)
InputsWith(seed) == VDict(<<[k |-> <<99>>, val |-> VInt(1)], [k |-> K_seed, val |-> seed]>>)

NodeAlphabet ==
    { VDict(<<>>),
      NodeWith(VDict(<<>>)),
      NodeWith(VNone),
      NodeWith(VDict(<<[k |-> <<99>>, val |-> VInt(1)]>>)),
      NodeWith(InputsWith(VInt(7))),
      NodeWith(InputsWith(VInt(0))),
      NodeWith(InputsWith(VFloat(1, <<53>>))),
      NodeWith(InputsWith(VStr(<<52, 50>>))),
      NodeWith(InputsWith(VBool(TRUE))) }

\* the dict whose i-th key is the digit i
PromptOf(nodes) == VDict([i \in 1..Len(nodes) |-> [k |-> <<48 + i>>, val |-> nodes[i]]])

SeedInit ==
    \E nodes \in SeqsUpTo(NodeAlphabet, MaxNodes), absent \in BOOLEAN :
        sd = [pc |-> "start", prompt |-> IF absent /\ nodes = <<>> THEN VNone ELSE PromptOf(nodes)]

\* extract_seed is called
SeedBegin ==
    /\ sd.pc = "start"
    /\ sd' = SeedStart(sd.prompt)

\* extract_seed runs its loop
SeedStep ==
    /\ sd.pc = "loop"
    /\ sd' = SeedIter(sd)

-----------------------------------------------------------------------------
(* JPG: get_jpg_size                                                       *)

RECURSIVE SkipFF(_, _)
\* while ord(byte) == 0xff: byte = f.read(1): the 0-based place of the byte kept
SkipFF(b, pos) == IF pos < Len(b) /\ b[pos + 1] = 255 THEN SkipFF(b, pos + 1) ELSE pos

RECURSIVE JpgScan(_, _, _)
\* the loop of get_jpg_size with the file position pos and the segment size (lines
\* 321-330); any exception is caught and gives (None, None)
JpgScan(b, pos, size) ==
    LET p == SkipFF(b, pos + size)
        ftype == b[p + 1]
        len == Slice(b, p + 1, p + 3)
        dims == Slice(b, p + 4, p + 8)
    IN  IF pos + size < 0 \/ ~(p < Len(b)) \/ Len(len) # 2 THEN [w |-> VNone, h |-> VNone]
        ELSE IF 192 <= ftype /\ ftype <= 207
             THEN IF Len(dims) # 4 THEN [w |-> VNone, h |-> VNone]
                  ELSE [w |-> VInt(BE16(SubSeq(dims, 3, 4))), h |-> VInt(BE16(SubSeq(dims, 1, 2)))]
        ELSE JpgScan(b, p + 3, BE16(len) - 2)

\* get_jpg_size(image_path) on the file's bytes (lines 316-335)
GetJpgSize(b) == JpgScan(b, 0, 2)

-----------------------------------------------------------------------------
(* main: the batch loop, the text files, the external tools, the removals  *)

\* File names are sequences of tokens, the extension a token of its own;
\* str.replace(old, new) replaces the token old by the tokens new.
RECURSIVE Replace(_, _, _)
Replace(name, old, new) ==
    IF name = <<>> THEN <<>>
    ELSE (IF Head(name) = old THEN new ELSE <<Head(name)>>) \o Replace(Tail(name), old, new)

\* name.endswith(ext)
EndsWith(name, ext) == name # <<>> /\ name[Len(name)] = ext

\* os.path.isfile
IsFile(d, name) == name \in DOMAIN d

\* remove(fname) (lines 209-212)
Remove(d, name) == [n \in DOMAIN d \ {name} |-> d[n]]

\* a file is created or overwritten
Put(d, name, content) == [n \in DOMAIN d \cup {name} |-> IF n = name THEN content ELSE d[n]]

(* The directory main runs in: PNG, WEBP and JPG files.                    *)

\* {"3":{"inputs":{"seed":7}}} and {"n":1}
TxtSeedPrompt ==
    <<123, 34, 51, 34, 58, 123, 34>> \o K_inputs \o <<34, 58, 123, 34>> \o K_seed
    \o <<34, 58, 55, 125, 125, 125>>
TxtWorkflow == <<123, 34, 110, 34, 58, 49, 125>>

ChunkIHDR == PngChunk(T_IHDR, <<0, 0, 0, 2, 0, 0, 0, 3, 8, 2, 0, 0, 0>>, <<1, 1, 1, 1>>)
ChunkIEND == PngChunk(T_IEND, <<>>, <<174, 66, 96, 130>>)

Directory ==
    [n \in { <<"a", ".png">>, <<"b", ".png">>, <<"c", ".png">>, <<"d", ".png">>,
             <<"e", ".png">>, <<"f", ".webp">>, <<"g", ".webp">>, <<"h", ".jpg">> } |->
        CASE n[1] = "a" ->
                 (EncodePng(<<ChunkIHDR,
                     PngChunk(T_tEXt, K_prompt \o <<0>> \o TxtSeedPrompt, <<3, 3, 3, 3>>),
                     ChunkIEND>>))
          [] n[1] = "b" ->
                 (EncodePng(<<ChunkIHDR,
                     PngChunk(T_tEXt, K_workflow \o <<0>> \o TxtWorkflow, <<4, 4, 4, 4>>),
                     PngChunk(T_tEXt, K_parameters \o <<0>> \o TxtWord, <<5, 5, 5, 5>>),
                     ChunkIEND>>))
          [] n[1] = "c" ->
                 (EncodePng(<<
                     PngChunk(T_tEXt, K_prompt \o <<0>> \o TxtSeedPrompt, <<3, 3, 3, 3>>),
                     ChunkIEND>>))
          [] n[1] = "d" ->
                 (EncodePng(<<ChunkIHDR,
                     PngChunk(T_pHYs, <<0, 0, 15, 97, 0, 0, 11, 19, 1>>, <<2, 2, 2, 2>>),
                     ChunkIEND>>))
          [] n[1] = "e" -> (<<71, 73, 70, 56, 57, 97, 1, 0, 1, 0>>)
          [] n[1] = "f" ->
                 (EncodeWebp(FALSE,
                     << WebpItem(T_VP8X, <<16, 0, 0, 0, 1, 0, 0, 2, 0, 0>>, FALSE),
                        WebpItem(T_EXIF, EncodeExif(MarkII, 42,
                            <<IfdEntry(ID_PROMPT, 2, L_Prompt \o TxtSeedPrompt \o <<0>>)>>), FALSE),
                        WebpItem(T_VP8, <<9, 8, 7, 6>>, FALSE) >>, 0))
          [] n[1] = "g" ->
                 (EncodeWebp(FALSE,
                     << WebpItem(T_VP8X, <<16, 0, 0, 0, 1, 0, 0, 2, 0, 0>>, FALSE),
                        WebpItem(T_EXIF, EncodeExif(MarkII, 42,
                            <<IfdEntry(274, 3, <<1, 0>>)>>), FALSE) >>, 0))
          [] OTHER ->
                 (<<255, 216, 255, 224, 0, 4, 74, 70,
                    255, 192, 0, 11, 8, 0, 3, 0, 2, 1, 1, 17, 0>>)]

\* the bytes of a file: main reads only the images of the directory, which no
\* step overwrites (every name written carries a suffix no argument has)
Bytes(name) == Directory[name]

\* str(x) of the values that reach a file name
Str(x) ==
    CASE x.t = "none" -> "None"
      [] x.t = "int" -> ToString(x.v[1])
      [] x.t = "bool" -> IF x.v[1] = 1 THEN "True" ELSE "False"
      [] OTHER -> "?"

\* the first value read_png returns: the buffer of a PNG, the chunk list of a WEBP
ImageOf(name) ==
    IF Slice(Bytes(name), 0, 8) = PngSignature
    THEN [kind |-> "png", buf |-> Bytes(name), chunks |-> <<>>]
    ELSE [kind |-> "webp", buf |-> <<>>,
          chunks |-> ReadWebpLoop(Bytes(name), ReadWebpInit).chunks]

\* what read_png returns when the file is neither PNG nor WEBP (line 134)
ReadNothing ==
    [pc |-> "done", err |-> "", prompt |-> VNone, workflow |-> VNone, parameters |-> VNone,
     w |-> VNone, h |-> VNone]

\* what read_png returns from the frame r of read_webp (lines 64 and 135)
ReadFromWebp(r) ==
    [pc |-> r.pc, err |-> r.err, prompt |-> r.prompt, workflow |-> r.workflow,
     parameters |-> VStr(<<>>), w |-> VInt(r.w), h |-> VInt(r.h)]

\* what read_png returns from the frame r of its own loop (line 176)
ReadFromPng(r) ==
    [pc |-> r.pc, err |-> r.err, prompt |-> r.prompt, workflow |-> r.workflow,
     parameters |-> r.parameters, w |-> VInt(r.w), h |-> VInt(r.h)]

\* read_png(file) on the file's bytes (lines 124-176): the signature tests, then
\* one of the two decoders
ReadPng(bytes) ==
    IF Slice(bytes, 0, 8) # PngSignature
    THEN IF Slice(bytes, 0, 4) # RiffTag THEN ReadNothing
         ELSE ReadFromWebp(ReadWebpLoop(bytes, ReadWebpInit))
    ELSE ReadFromPng(ReadPngLoop(bytes, ReadPngInit))

\* write_png(s, file) (lines 179-192): the bytes written, and whether it raised
WritePng(img) ==
    IF img.kind = "webp" THEN SaveWebp(img.chunks)
    ELSE WritePngLoop(img.buf, WritePngInit)

\* the name save_text gives the text file (lines 198-199)
TextName(fname, what, src_ext) ==
    Replace(fname, src_ext, <<IF what = "param" THEN "_param.txt" ELSE "_" \o what \o ".json">>)

\* f.write(json_data) of a text file takes a str only (lines 202-203)
TextWritable(what, json_data) == what # "param" \/ json_data.t = "str"

\* the test of line 422: prompt or workflow and not args.no_png
RewriteWanted(prompt, workflow, no_png) ==
    Truthy(prompt) \/ (Truthy(workflow) /\ ~no_png)

\* a compress that removes its input before the tool has run
CompressFilesEager(d, input, output, keep, ok) ==
    LET d1 == Remove(IF keep THEN d ELSE Remove(d, input), output)
    IN  IF ok THEN Put(d1, output, "lzma") ELSE d1

\* the files after remove(output_file) and a run of the tool on input_file (compress,
\* lines 220-229): ok is the tool's exit status, a failure leaves no output
CompressFiles(d, input, output, keep, ok) ==
    LET d1 == Remove(d, output)
        d2 == Put(d1, output, "lzma")
    IN  IF ~ok THEN d1 ELSE IF ~keep THEN Remove(d2, input) ELSE d2

\* the same for cypher (lines 238-247)
CypherFiles(d, input, output, keep, ok) ==
    LET d1 == Remove(d, output)
        d2 == Put(d1, output, "gpg")
    IN  IF ~ok THEN d1 ELSE IF ~keep THEN Remove(d2, input) ELSE d2

\* the files after convert2jpg ran convert on input_file (lines 268-276)
ConvertFiles(d, input, output, keep, ok) ==
    LET d2 == Put(d, output, "jpg")
    IN  IF ~ok THEN d ELSE IF ~keep THEN Remove(d2, input) ELSE d2

\* the record of the last step that touched the files; made (in the frame of main)
\* is the set of the files written since the current argument was taken up
Op(op, input, output, ok) == [op |-> op, input |-> input, output |-> output, ok |-> ok]

MainFrame ==
    [pc |-> "start", err |-> "", idx |-> 0, no_cypher |-> FALSE, no_compress |-> FALSE,
     tool |-> "", what |-> "", name |-> <<>>, ext |-> "",
     prompt |-> VNone, workflow |-> VNone, parameters |-> VNone, w |-> VNone, h |-> VNone,
     fname |-> <<>>, last |-> Op("", <<>>, <<>>, TRUE), made |-> {}]

\* the sanity checks of main (lines 385-389).  gpg and the recipient's key are
\* present (without them main behaves as under --no-cypher); tool is the first
\* compression tool found, "" when none is installed: check_compress then returns
\* a bare True (line 313), which line 386 cannot unpack.
MainSanity ==
    /\ mn.pc = "start"
    /\ \E tool \in {"lzma", "bzip2", ""} :
        mn' = IF ~args.no_compress /\ tool = ""
              THEN Raise(mn, "TypeError")
              ELSE IF args.files = <<>> THEN [mn EXCEPT !.pc = "exit"]
              ELSE [mn EXCEPT !.pc = "file", !.no_cypher = args.no_cypher,
                              !.no_compress = args.no_compress,
                              !.tool = IF args.no_compress THEN "" ELSE tool]
    /\ UNCHANGED <<args, disk>>

\* s, prompt, workflow, parameters, w, h = read_png(file_name) (line 401)
AfterRead(at, ext, r) ==
    IF r.pc = "raise" THEN Raise(at, r.err)
    ELSE [at EXCEPT !.pc = "save", !.what = "prompt", !.ext = ext, !.prompt = r.prompt,
                    !.workflow = r.workflow, !.parameters = r.parameters,
                    !.w = r.w, !.h = r.h]

\* the head of the loop body: the next file, the tests on it and read_png (lines 392-401)
MainNextFile ==
    /\ mn.pc = "file"
    /\ LET i == mn.idx + 1
           file_name == args.files[i]
           ext == IF EndsWith(file_name, ".png") THEN ".png" ELSE ".webp"
           at == [mn EXCEPT !.idx = i, !.made = {}]
       IN  mn' = IF i > Len(args.files) THEN [mn EXCEPT !.pc = "end"]
                 ELSE IF ~IsFile(disk, file_name) THEN at
                 ELSE IF EndsWith(file_name, ".png") \/ EndsWith(file_name, ".webp")
                      THEN AfterRead(at, ext, ReadPng(Bytes(file_name)))
                 ELSE IF EndsWith(file_name, ".jpg") THEN [at EXCEPT !.pc = "jpg"]
                 ELSE at
    /\ UNCHANGED <<args, disk>>

\* the value main saves under the current what
JsonData == 
    IF mn.what = "prompt" THEN mn.prompt
    ELSE IF mn.what = "workflow" THEN mn.workflow ELSE mn.parameters

\* name_x = None if args.no_x else save_text(...) (lines 403, 407, 411 and 195-206)
MainSaveText ==
    /\ mn.pc = "save"
    /\ LET file_name == args.files[mn.idx]
           skip == \/ mn.what = "prompt" /\ args.no_prompt
                   \/ mn.what = "workflow" /\ args.no_workflow
                   \/ ~Truthy(JsonData)
           name == TextName(file_name, mn.what, mn.ext)
       IN  IF skip
           THEN /\ mn' = [mn EXCEPT !.pc = "compress", !.name = <<>>]
                /\ disk' = disk
           ELSE /\ disk' = Put(disk, name, "text")
                /\ mn' = IF TextWritable(mn.what, JsonData)
                         THEN [mn EXCEPT !.pc = "compress", !.name = name,
                                         !.made = @ \cup {name},
                                         !.last = Op("save_text", <<>>, name, TRUE)]
                         ELSE [Raise(mn, "TypeError") EXCEPT
                                         !.last = Op("save_text", <<>>, name, FALSE)]
    /\ UNCHANGED args

\* compress_ext for the tool found by check_compress (lines 304-311)
CompressExt(tool) ==
    IF tool = "lzma" THEN "lzma" ELSE IF tool = "bzip2" THEN "bz2" ELSE "gz"

\* name_x_comp = name_x if args.no_compress else compress(...) (lines 404, 408, 412
\* and 215-230); a failing tool ends the program with exit(1)
MainCompress ==
    /\ mn.pc = "compress"
    /\ IF mn.no_compress \/ mn.name = <<>>
       THEN /\ mn' = [mn EXCEPT !.pc = "cypher"]
            /\ disk' = disk
       ELSE \E ok \in BOOLEAN :
            LET output == Append(mn.name, "." \o CompressExt(mn.tool))
            IN  /\ disk' = CompressFiles(disk, mn.name, output, args.keep, ok)
                /\ mn' = [mn EXCEPT !.pc = IF ok THEN "cypher" ELSE "exit",
                                    !.name = output,
                                    !.made = IF ok THEN @ \cup {output} ELSE @,
                                    !.last = Op("compress", mn.name, output, ok)]
    /\ UNCHANGED args

\* what main saves after the current what
NextWhat == IF mn.what = "prompt" THEN "workflow" ELSE "param"

\* name_x_cypher = name_x_comp if args.no_cypher else cypher(...) (lines 405, 409,
\* 413 and 233-248)
MainCypher ==
    /\ mn.pc = "cypher"
    /\ LET on == [mn EXCEPT !.pc = IF mn.what = "param" THEN "name" ELSE "save",
                            !.what = IF mn.what = "param" THEN "" ELSE NextWhat,
                            !.name = <<>>]
       IN  IF mn.no_cypher \/ mn.name = <<>>
           THEN /\ mn' = on
                /\ disk' = disk
           ELSE \E ok \in BOOLEAN :
                LET output == Append(mn.name, ".gpg")
                IN  /\ disk' = CypherFiles(disk, mn.name, output, args.keep, ok)
                    /\ mn' = IF ok THEN [on EXCEPT !.made = @ \cup {output},
                                                   !.last = Op("cypher", mn.name, output, ok)]
                             ELSE [mn EXCEPT !.pc = "exit",
                                             !.last = Op("cypher", mn.name, output, ok)]
    /\ UNCHANGED args

\* the name of the stripped image from the frame seed of extract_seed (lines 414-421)
AfterSeed(st, file_name, no_size_in_name, seed) ==
    LET f1 == IF seed.result.t # "none"
              THEN Replace(file_name, st.ext, <<"_" \o Str(seed.result), st.ext>>)
              ELSE file_name
        f2 == IF ~no_size_in_name
              THEN Replace(f1, st.ext, <<"_" \o Str(st.w) \o "x" \o Str(st.h), st.ext>>)
              ELSE f1
    IN  IF seed.pc = "raise" THEN Raise(st, seed.err)
        ELSE [st EXCEPT !.pc = "write", !.fname = Replace(f2, st.ext, <<"_no_prompt", st.ext>>)]

\* the name of the stripped image: seed, size, _no_prompt (lines 414-421)
MainName ==
    /\ mn.pc = "name"
    /\ mn' = AfterSeed(mn, args.files[mn.idx], args.no_size_in_name, ExtractSeed(mn.prompt))
    /\ UNCHANGED <<args, disk>>

\* main after write_png(s, fname) ended in the frame r
AfterWrite(st, r) ==
    IF r.pc = "raise"
    THEN [Raise(st, r.err) EXCEPT !.last = Op("write_png", <<>>, st.fname, FALSE)]
    ELSE [st EXCEPT !.pc = "convert", !.made = @ \cup {st.fname},
                    !.last = Op("write_png", <<>>, st.fname, TRUE)]

\* if prompt or workflow and not args.no_png: write_png(s, fname) (lines 422-423)
MainWrite ==
    /\ mn.pc = "write"
    /\ IF RewriteWanted(mn.prompt, mn.workflow, args.no_png)
       THEN /\ disk' = Put(disk, mn.fname, "image")
            /\ mn' = AfterWrite(mn, WritePng(ImageOf(args.files[mn.idx])))
       ELSE /\ mn' = [mn EXCEPT !.pc = "file"]
            /\ disk' = disk
    /\ UNCHANGED args

\* if not args.no_jpg: convert2jpg(fname, ...) (lines 424-425 and 265-277)
MainConvert ==
    /\ mn.pc = "convert"
    /\ IF args.no_jpg
       THEN /\ mn' = [mn EXCEPT !.pc = "remove"]
            /\ disk' = disk
       ELSE \E ok \in BOOLEAN :
            LET output == Replace(mn.fname, mn.ext, <<".jpg">>)
            IN  /\ disk' = ConvertFiles(disk, mn.fname, output, args.keep, ok)
                /\ mn' = [mn EXCEPT !.pc = IF ok THEN "remove" ELSE "exit",
                                    !.made = IF ok THEN @ \cup {output} ELSE @,
                                    !.last = Op("convert", mn.fname, output, ok)]
    /\ UNCHANGED args

\* if args.remove: remove(file_name) (lines 426-427)
MainRemove ==
    /\ mn.pc = "remove"
    /\ IF args.remove
       THEN /\ disk' = Remove(disk, args.files[mn.idx])
            /\ mn' = [mn EXCEPT !.pc = "file",
                                !.last = Op("remove", args.files[mn.idx], mn.fname, TRUE)]
       ELSE /\ mn' = [mn EXCEPT !.pc = "file"]
            /\ disk' = disk
    /\ UNCHANGED args

\* the branch for a .jpg file (lines 428-432): the size, then convert2jpg with
\* keep = not args.remove; an unknown size is logged and the file converted anyway
MainJpg ==
    /\ mn.pc = "jpg"
    /\ \E ok \in BOOLEAN :
        LET file_name == args.files[mn.idx]
            size == GetJpgSize(Bytes(file_name))
            output == Replace(file_name, ".jpg", <<"_" \o Str(size.w) \o "x" \o Str(size.h), ".jpg">>)
        IN  /\ disk' = ConvertFiles(disk, file_name, output, ~args.remove, ok)
            /\ mn' = [mn EXCEPT !.pc = IF ok THEN "file" ELSE "exit",
                                !.made = IF ok THEN @ \cup {output} ELSE @,
                                !.last = Op("convert", file_name, output, ok)]
    /\ UNCHANGED args

(* The runs of main of the model: up to MaxFiles arguments out of a        *)
(* directory of images, any options.                                       *)

MaxFiles == 2

\* the arguments: the files of the directory, one that does not exist (m) and a
\* file with another extension (i)
Arguments == DOMAIN Directory \cup { <<"m", ".png">>, <<"i", ".txt">> }

\* every combination of the options that decide which files are written and
\* removed, and each of the three others alone
Options ==
    [keep : BOOLEAN, no_compress : BOOLEAN, no_cypher : BOOLEAN, no_jpg : BOOLEAN,
     no_png : BOOLEAN, remove : BOOLEAN,
     no_prompt : {FALSE}, no_workflow : {FALSE}, no_size_in_name : {FALSE}]
    \cup { o \in [keep : {FALSE}, no_compress : {FALSE}, no_cypher : {FALSE},
                   no_jpg : {FALSE}, no_png : {FALSE}, remove : {FALSE},
                   no_prompt : BOOLEAN, no_workflow : BOOLEAN, no_size_in_name : BOOLEAN] :
              Cardinality({f \in {"no_prompt", "no_workflow", "no_size_in_name"} : o[f]}) = 1 }

MainInit ==
    /\ \E o \in Options, files \in SeqsUpTo(Arguments, MaxFiles) :
        args = [f \in DOMAIN o \cup {"files"} |-> IF f = "files" THEN files ELSE o[f]]
    /\ disk = [n \in Arguments \ { <<"m", ".png">> } |-> "input"]
    /\ mn = MainFrame

-----------------------------------------------------------------------------
(* Specifications                                                          *)

WebpIdle ==
    /\ webpItems = <<>>
    /\ webp_data = <<>>
    /\ rw = [pc |-> "idle"]
    /\ saved = [pc |-> "idle"]
    /\ rw2 = [pc |-> "idle"]

ExifIdle == ex = [pc |-> "idle"]

SeedIdle == sd = [pc |-> "idle"]

MainIdle ==
    /\ args = [files |-> <<>>]
    /\ disk = <<>>
    /\ mn = [pc |-> "idle"]

InitPng == PngInit /\ WebpIdle /\ ExifIdle /\ SeedIdle /\ MainIdle

NextPng ==
    \/ ReadPngStep /\ UNCHANGED <<webpVars, ex, sd, mainVars>>
    \/ WritePngStep /\ UNCHANGED <<webpVars, ex, sd, mainVars>>

SpecPng == InitPng /\ [][NextPng]_vars

InitExif == ExifInit /\ PngIdle /\ WebpIdle /\ SeedIdle /\ MainIdle

NextExif ==
    \/ ExifBegin /\ UNCHANGED <<pngVars, webpVars, sd, mainVars>>
    \/ ExifStep /\ UNCHANGED <<pngVars, webpVars, sd, mainVars>>

SpecExif == InitExif /\ [][NextExif]_vars

InitWebp == WebpInit /\ PngIdle /\ ExifIdle /\ SeedIdle /\ MainIdle

NextWebp ==
    \/ ReadWebpStep /\ UNCHANGED <<pngVars, ex, sd, mainVars>>
    \/ SaveWebpStep /\ UNCHANGED <<pngVars, ex, sd, mainVars>>
    \/ RereadWebpBegin /\ UNCHANGED <<pngVars, ex, sd, mainVars>>
    \/ RereadWebpStep /\ UNCHANGED <<pngVars, ex, sd, mainVars>>

SpecWebp == InitWebp /\ [][NextWebp]_vars

InitSeed == SeedInit /\ PngIdle /\ WebpIdle /\ ExifIdle /\ MainIdle

NextSeed ==
    \/ SeedBegin /\ UNCHANGED <<pngVars, webpVars, ex, mainVars>>
    \/ SeedStep /\ UNCHANGED <<pngVars, webpVars, ex, mainVars>>

SpecSeed == InitSeed /\ [][NextSeed]_vars

InitMain == MainInit /\ PngIdle /\ WebpIdle /\ ExifIdle /\ SeedIdle

NextMain ==
    \/ MainSanity /\ UNCHANGED <<pngVars, webpVars, ex, sd>>
    \/ MainNextFile /\ UNCHANGED <<pngVars, webpVars, ex, sd>>
    \/ MainSaveText /\ UNCHANGED <<pngVars, webpVars, ex, sd>>
    \/ MainCompress /\ UNCHANGED <<pngVars, webpVars, ex, sd>>
    \/ MainCypher /\ UNCHANGED <<pngVars, webpVars, ex, sd>>
    \/ MainName /\ UNCHANGED <<pngVars, webpVars, ex, sd>>
    \/ MainWrite /\ UNCHANGED <<pngVars, webpVars, ex, sd>>
    \/ MainConvert /\ UNCHANGED <<pngVars, webpVars, ex, sd>>
    \/ MainRemove /\ UNCHANGED <<pngVars, webpVars, ex, sd>>
    \/ MainJpg /\ UNCHANGED <<pngVars, webpVars, ex, sd>>

SpecMain == InitMain /\ [][NextMain]_vars

-----------------------------------------------------------------------------
(* Properties                                                              *)

RECURSIVE ExpectedPngBody(_)
\* the encodings of the chunks that are no tEXt, up to and including the first IEND
ExpectedPngBody(chunks) ==
    IF chunks = <<>> THEN <<>>
    ELSE IF Head(chunks).type = T_IEND THEN EncodePngChunk(Head(chunks))
    ELSE (IF Head(chunks).type = T_tEXt THEN <<>> ELSE EncodePngChunk(Head(chunks)))
         \o ExpectedPngBody(Tail(chunks))

\* C1: for a well-formed PNG buffer write_png ends without an exception and its
\* output is the signature followed by exactly the chunks that are no tEXt, each
\* byte for byte (length, type, payload, CRC), in order, up to and including the
\* first IEND; no tEXt chunk and nothing behind IEND is written.
C1_WritePngKeepsOtherChunks ==
    /\ wr.pc # "raise"
    /\ wr.pc = "done" => wr.out = PngSignature \o ExpectedPngBody(pngChunks)

\* a finished rewrite of a buffer with a kept chunk, a tEXt chunk before IEND and
\* a chunk behind IEND
C1_Witness ==
    /\ wr.pc = "done"
    /\ Len(pngChunks) = 3
    /\ pngChunks[1].type = T_tEXt
    /\ pngChunks[2].type = T_IEND
    /\ pngChunks[3].type = T_IDAT
    /\ wr.out = PngSignature \o EncodePngChunk(pngChunks[2])

\* the keyword and the value of a tEXt chunk of the chunk list
TextKeyword(c) == SubSeq(c.data, 1, FirstNul(c.data, 1) - 1)
TextOf(c) == SubSeq(c.data, FirstNul(c.data, 1) + 1, Len(c.data))

\* C10: no metadata is removed without having been extracted: once read_png has
\* returned and write_png has written the image, every tEXt chunk of the buffer
\* with keyword prompt, workflow or parameters (write_png copies none of them) has
\* its value among the values read_png returned.
C10_NoMetadataLost ==
    (rd.pc = "done" /\ wr.pc = "done") =>
        \A i \in 1..Len(pngChunks) :
            pngChunks[i].type = T_tEXt =>
                /\ TextKeyword(pngChunks[i]) = K_prompt => rd.prompt = TextValue(TextOf(pngChunks[i]))
                /\ TextKeyword(pngChunks[i]) = K_workflow => rd.workflow = TextValue(TextOf(pngChunks[i]))
                /\ TextKeyword(pngChunks[i]) = K_parameters => rd.parameters = TextValue(TextOf(pngChunks[i]))

RECURSIVE OriginalKept(_)
\* the chunks of the file that are no EXIF, as the file holds them
OriginalKept(items) ==
    IF items = <<>> THEN <<>>
    ELSE (IF Head(items).type = T_EXIF THEN <<>>
          ELSE << [type |-> Head(items).type, size |-> Len(Head(items).data),
                   data |-> Head(items).data] >>)
         \o OriginalKept(Tail(items))

RECURSIVE AbsorbedKept(_, _)
\* the same chunks, each stray byte added to the last chunk kept before it
AbsorbedKept(items, acc) ==
    IF items = <<>> THEN acc
    ELSE LET c == Head(items)
             kept == IF c.type = T_EXIF THEN acc
                     ELSE Append(acc, [type |-> c.type, size |-> Len(c.data), data |-> c.data])
             n == Len(kept)
         IN  AbsorbedKept(Tail(items),
                 IF c.zero /\ n > 0
                 THEN [kept EXCEPT ![n] = [type |-> @.type, size |-> @.size + 1,
                                           data |-> @.data \o <<0>>]]
                 ELSE kept)

NoExif(chunks) == \A i \in 1..Len(chunks) : chunks[i].type # T_EXIF

AtStrayZero(data, st) ==
    st.pc = "loop" /\ st.offset < Len(data) /\ data[st.offset + 1] = 0

\* C3: whenever the byte at the current chunk offset is 0x00, the kept-chunk list
\* is not empty, and the pass of the loop changes only its last chunk (size one
\* more, a zero byte appended) and adds at most the chunk whose header follows
\* the stray byte, never an entry for the stray byte itself.
C3_StrayZeroLocal ==
    [][AtStrayZero(webp_data, rw) =>
        /\ rw.chunks # <<>>
        /\ rw'.err # "IndexError"
        /\ Len(rw'.chunks) \in {Len(rw.chunks), Len(rw.chunks) + 1}
        /\ \A i \in 1..(Len(rw.chunks) - 1) : rw'.chunks[i] = rw.chunks[i]
        /\ rw'.chunks[Len(rw.chunks)] =
               [type |-> rw.chunks[Len(rw.chunks)].type,
                size |-> rw.chunks[Len(rw.chunks)].size + 1,
                data |-> rw.chunks[Len(rw.chunks)].data \o <<0>>]
        /\ Len(rw'.chunks) = Len(rw.chunks) + 1 =>
               rw'.chunks[Len(rw'.chunks)].type
                   = Slice(webp_data, rw.offset + 1, rw.offset + 5)]_vars

\* C9: every chunk read_webp returns has a recorded size equal to the length of
\* its payload, and the RIFF length save_webp writes is the number of bytes that
\* follow the length field.
C9_SizesMatchPayloads ==
    /\ rw.pc = "done" =>
           \A i \in 1..Len(rw.chunks) : rw.chunks[i].size = Len(rw.chunks[i].data)
    /\ saved.pc = "done" => LE32(SubSeq(saved.out, 5, 8)) = Len(saved.out) - 8

RECURSIVE LastKnown(_, _, _)
\* the value of the last ASCII entry with the tag id, VNone when there is none
LastKnown(entries, id, label) ==
    IF entries = <<>> THEN VNone
    ELSE LET e == entries[Len(entries)]
         IN  IF e.id = id /\ e.kind = 2
             THEN JsonLoads(SliceInner(e.value, Len(label))).val
             ELSE LastKnown(SubSeq(entries, 1, Len(entries) - 1), id, label)

\* the ASCII entries with a known tag carry their label and a JSON text
KnownEntriesWellFormed(entries) ==
    \A i \in 1..Len(entries) :
        (entries[i].kind = 2 /\ entries[i].id \in {ID_WORKFLOW, ID_PROMPT}) =>
            LET label == IF entries[i].id = ID_WORKFLOW THEN L_Workflow ELSE L_Prompt
            IN  StartsWith(entries[i].value, label)
                /\ JsonLoads(SliceInner(entries[i].value, Len(label))).ok

\* C8: for a payload with a valid endianness marker and magic 42 whose known
\* ASCII entries are well formed, parse_exif skips every entry of another field
\* type or tag and returns the workflow and prompt of the known ASCII entries.
C8_SkipsOtherEntries ==
    (ex.pc \in {"done", "raise"} /\ ex.mark \in {MarkII, MarkMM} /\ ex.magic = 42
        /\ KnownEntriesWellFormed(ex.entries)) =>
        /\ ex.pc = "done"
        /\ ex.workflow = LastKnown(ex.entries, ID_WORKFLOW, L_Workflow)
        /\ ex.prompt = LastKnown(ex.entries, ID_PROMPT, L_Prompt)

RECURSIVE FirstIntegerSeed(_)
\* the seed of the first node whose inputs.seed is an integer and no boolean
FirstIntegerSeed(items) ==
    IF items = <<>> THEN VNone
    ELSE LET inputs == DictGet(Head(items).val.v, K_inputs, VDict(<<>>))
             seed == IF inputs.t = "dict" THEN DictGet(inputs.v, K_seed, VNone) ELSE VNone
         IN  IF seed.t = "int" THEN seed ELSE FirstIntegerSeed(Tail(items))

\* C6: extract_seed ends without an exception and returns the seed of the first
\* node, in stored order, whose inputs.seed is an actual integer (no float, no
\* numeric string, no boolean), None when the prompt is absent or empty or no
\* node has one.
C6_FirstIntegerSeed ==
    /\ sd.pc # "raise"
    /\ sd.pc = "done" =>
           sd.result = (IF sd.prompt.t = "dict" THEN FirstIntegerSeed(sd.prompt.v) ELSE VNone)

\* C4: an error while one file is processed aborts that file only: when the
\* program has stopped after taking up a file, it has taken up every file of
\* the argument list.
C4_BatchContinues ==
    (mn.pc \in {"raise", "exit"} /\ mn.idx >= 1) => mn.idx = Len(args.files)

\* C5: the rewrite step runs exactly when (prompt or workflow) is non-empty and
\* --no-png is not set; under --no-png no stripped image is ever written.
C5_NoPngSkipsRewrite ==
    [][/\ mn.pc = "write" =>
            ((mn'.pc # "file") <=>
                ((Truthy(mn.prompt) \/ Truthy(mn.workflow)) /\ ~args.no_png))
       /\ args.no_png => \A n \in DOMAIN disk' : disk'[n] # "image"]_vars

\* the step that made the frame st removed the file f after the artifact that
\* replaces it was written: the input of a tool that succeeded, or the original
\* image once the stripped image and, when asked for, the JPG are written
RemovedAfterReplacement(f, st, d, no_jpg, ext) ==
    \/ /\ st.last.op \in {"compress", "cypher", "convert"}
       /\ f = st.last.input
       /\ st.last.ok
       /\ st.last.output \in st.made \cap DOMAIN d
    \/ /\ st.last.op = "remove"
       /\ f = st.last.input
       /\ st.last.output \in st.made
       /\ IF no_jpg THEN st.last.output \in DOMAIN d
          ELSE Replace(st.last.output, ext, <<".jpg">>) \in st.made \cap DOMAIN d

\* the step that made the frame st failed and its input file is still there
FailedKeepsInput(st, d) ==
    (st.last.op \in {"compress", "cypher", "convert"} /\ ~st.last.ok) => st.last.input \in DOMAIN d

\* C7 as stated: in every step a file is removed only after the artifact that
\* replaces it has been written, and a failed step leaves its input file.
C7_RemovedOnlyAfterReplacement ==
    [][/\ \A f \in DOMAIN disk \ DOMAIN disk' :
              RemovedAfterReplacement(f, mn', disk', args.no_jpg, mn.ext)
       /\ mn'.last # mn.last => FailedKeepsInput(mn', disk')]_vars

\* C7 as amended: the same, except for the output file of an earlier run, which
\* compress and cypher remove before the tool runs and which is lost when the
\* tool then fails.
C7_RemovedAfterReplacementOrStale ==
    [][/\ \A f \in DOMAIN disk \ DOMAIN disk' :
              \/ RemovedAfterReplacement(f, mn', disk', args.no_jpg, mn.ext)
              \/ /\ mn'.last.op \in {"compress", "cypher"}
                 /\ ~mn'.last.ok
                 /\ f = mn'.last.output
       /\ mn'.last # mn.last => FailedKeepsInput(mn', disk')]_vars

\* the original image has been removed, with its stripped image converted and
\* removed and its text file compressed and removed before
C7_Witness ==
    /\ mn.last.op = "remove"
    /\ ~args.keep /\ ~args.no_jpg /\ ~args.no_compress
    /\ mn.last.input \notin DOMAIN disk
    /\ mn.last.output \notin DOMAIN disk
    /\ Replace(mn.last.output, mn.ext, <<".jpg">>) \in DOMAIN disk
    /\ \E n \in mn.made : n \notin DOMAIN disk /\ n[Len(n)] = "_prompt.json"

====
